---- MODULE Spec2Model ----
(***************************************************************************)
(* Location-history data core of Syscodeia-tracking.                       *)
(*                                                                         *)
(*   LocationCacheService   (location-cache.service.ts)   the two caches   *)
(*   LocationHistoryService (location-history.service.ts) the store        *)
(*                                                                         *)
(* Time is the value Date.now() returns, counted in units of 600000 ms     *)
(* (the cache's defaultTtl).  Several operations may read the same value.  *)
(* A calendar day is an integer; Date.toDateString() is injective on days, *)
(* so a track key `${targetId}-${date.toDateString()}` is the pair         *)
(* <<targetId, day>> and a dates key `${targetId}-${year}-${month}` is the *)
(* pair <<targetId, month>>.                                               *)
(***************************************************************************)
EXTENDS Integers, Sequences, FiniteSets, TLC

VARIABLES
    clock,                  \* Date.now()
    availableDatesCache,    \* Map<string, CacheEntry<number[]>>, in Map order
    locationDataCache,      \* Map<string, CacheEntry<LocationPoint[]>>, in Map order
    metrics,                \* _metrics: hits, misses, evictions
    config,                 \* the cache's config: maxSize, defaultTtl, enableMetrics
    selectedDevice,         \* selectedDeviceSubject
    selectedDate,           \* selectedDateSubject
    availableDates,         \* availableDatesSubject: Map<string, number[]>
    locationData,           \* locationDataSubject
    loading,                \* loadingSubject
    error,                  \* errorSubject
    statistics,             \* _statistics
    fg,                     \* foreground remote calls in flight, in issue order
    bg                      \* prefetch remote calls in flight

cacheVars == <<availableDatesCache, locationDataCache, metrics>>
storeVars == <<selectedDevice, selectedDate, availableDates, locationData,
               loading, error, statistics>>
netVars   == <<fg, bg>>
vars      == <<clock, cacheVars, config, storeVars, netVars>>

---------------------------------------------------------------------------
(* Bounds of the model *)

maxSize     == 2    \* config.maxSize, scaled down
MaxClock    == 3    \* last instant the clock reaches
MaxCalls    == 2    \* cache reads counted by hits and misses since the last reset
MaxFg       == 2    \* foreground remote calls in flight at once
MaxBg       == 2    \* prefetch remote calls in flight at once
CacheMaxClock == 2  \* last instant the clock reaches when the cache is used directly
MaxEvictions == 1   \* evictions counted when the cache is used directly
MaxPoints   == 3    \* samples of a track the remote archive answers with
MaxHeading  == 765  \* headings run from -MaxHeading to MaxHeading degrees

(* Program constants *)

defaultTtl  == 1    \* config.defaultTtl, 600000 ms = one unit of time
RetryCount  == 2    \* retry({ count: 2, ... })

None        == <<>>                 \* null / undefined
Some(x)     == <<x>>
NoError     == "null"               \* errorSubject holds null

Devices     == {1}
Months      == {6}
Days        == {1}                  \* the day a caller asks for, one call at a time
Days2       == {1, 2}               \* the days callers ask for concurrently
DatesKeys   == Devices \X Months
TrackDays   == {0, 1, 2, 3}         \* with the days prefetch reaches

---------------------------------------------------------------------------
(* Values the remote archive returns *)

\* a LocationPoint on the equator
LocationPoint(t, lng, speed, heading) ==
    [utcTime |-> t, lat |-> 0, lng |-> lng, speed |-> speed, heading |-> heading]

Pt(t, lng, speed) == LocationPoint(t, lng, speed, 0)

TrackA  == <<Pt(0, 0, 0), Pt(1000, 1, 10)>>
TrackB  == <<Pt(0, 1, 5)>>
Tracks  == {<<>>, TrackA}

\* the archive's track of a day: historical tracks do not change
RemoteTrack(key) == IF key[2] % 2 = 1 THEN TrackA ELSE <<>>
DayLists == {<<>>, <<1, 3>>}

---------------------------------------------------------------------------
(* LocationCacheService: a Map is a sequence of entries in insertion order *)

IndexOf(cache, key) ==
    IF \E i \in 1..Len(cache) : cache[i].key = key
    THEN CHOOSE i \in 1..Len(cache) : cache[i].key = key
    ELSE 0

MapHas(cache, key) == IndexOf(cache, key) # 0

\* the entry a cache holds under a key
EntryOf(cache, key) == cache[IndexOf(cache, key)]

MapKeys(cache) == {cache[i].key : i \in 1..Len(cache)}

MapDelete(cache, key) == SelectSeq(cache, LAMBDA e : e.key # key)

\* Map.set keeps the position of a key that is present and appends a new one
MapSet(cache, e) ==
    IF MapHas(cache, e.key)
    THEN [cache EXCEPT ![IndexOf(cache, e.key)] = e]
    ELSE Append(cache, e)

\* an entry that lapses at the instant its age reaches its ttl
isExpired_Inclusive(entry, now) == (now - entry.timestamp) >= entry.ttl

isExpired(entry, now) == (now - entry.timestamp) > entry.ttl

getCachedData(cache, key, now) ==
    LET i == IndexOf(cache, key) IN
    IF i = 0
    THEN [cache |-> cache, result |-> None, evicted |-> 0]
    ELSE IF isExpired(cache[i], now)
    THEN [cache |-> MapDelete(cache, key), result |-> None, evicted |-> 1]
    ELSE [cache   |-> [cache EXCEPT ![i].accessCount = @ + 1,
                                    ![i].lastAccessed = now],
          result  |-> Some(cache[i].data),
          evicted |-> 0]

\* the scan of evictLeastRecentlyUsed from entry i on: index of oldestKey, 0 for null
RECURSIVE OldestFrom(_, _, _, _)
OldestFrom(cache, i, oldestKey, oldestTime) ==
    IF i > Len(cache) THEN oldestKey
    ELSE IF cache[i].lastAccessed < oldestTime
         THEN OldestFrom(cache, i + 1, i, cache[i].lastAccessed)
         ELSE OldestFrom(cache, i + 1, oldestKey, oldestTime)

\* a slip: <= in place of <, so the last of the entries that tie is taken
RECURSIVE OldestFromLastTie(_, _, _, _)
OldestFromLastTie(cache, i, oldestKey, oldestTime) ==
    IF i > Len(cache) THEN oldestKey
    ELSE IF cache[i].lastAccessed <= oldestTime
         THEN OldestFromLastTie(cache, i + 1, i, cache[i].lastAccessed)
         ELSE OldestFromLastTie(cache, i + 1, oldestKey, oldestTime)

\* a scan by the instant of insertion
RECURSIVE OldestFromByInsertion(_, _, _, _)
OldestFromByInsertion(cache, i, oldestKey, oldestTime) ==
    IF i > Len(cache) THEN oldestKey
    ELSE IF cache[i].timestamp < oldestTime
         THEN OldestFromByInsertion(cache, i + 1, i, cache[i].timestamp)
         ELSE OldestFromByInsertion(cache, i + 1, oldestKey, oldestTime)

evictLeastRecentlyUsed_ByInsertion(cache, now) ==
    LET o == OldestFromByInsertion(cache, 1, 0, now) IN
    IF o # 0
    THEN [cache |-> MapDelete(cache, cache[o].key), evicted |-> 1]
    ELSE [cache |-> cache, evicted |-> 0]

evictLeastRecentlyUsed_LastTie(cache, now) ==
    LET o == OldestFromLastTie(cache, 1, 0, now) IN
    IF o # 0
    THEN [cache |-> MapDelete(cache, cache[o].key), evicted |-> 1]
    ELSE [cache |-> cache, evicted |-> 0]

evictLeastRecentlyUsed(cache, now) ==
    LET o == OldestFrom(cache, 1, 0, now) IN
    IF o # 0
    THEN [cache |-> MapDelete(cache, cache[o].key), evicted |-> 1]
    ELSE [cache |-> cache, evicted |-> 0]

\* a put that keeps the bookkeeping of the entry it replaces
setCachedData_KeepsCount(cache, key, data, ttl, now) ==
    IF MapHas(cache, key)
    THEN [cache   |-> MapSet(cache, [EntryOf(cache, key) EXCEPT !.data = data]),
          evicted |-> 0]
    ELSE LET ev == IF Len(cache) >= config.maxSize
                   THEN evictLeastRecentlyUsed(cache, now)
                   ELSE [cache |-> cache, evicted |-> 0]
         IN  [cache   |-> MapSet(ev.cache, [key |-> key, data |-> data,
                                            timestamp |-> now, ttl |-> ttl,
                                            accessCount |-> 1, lastAccessed |-> now]),
              evicted |-> ev.evicted]

\* a put that leaves the entry of a key the cache already has as it is
setCachedData_KeepsOld(cache, key, data, ttl, now) ==
    IF MapHas(cache, key)
    THEN [cache |-> cache, evicted |-> 0]
    ELSE LET ev == IF Len(cache) >= config.maxSize
                   THEN evictLeastRecentlyUsed(cache, now)
                   ELSE [cache |-> cache, evicted |-> 0]
         IN  [cache   |-> MapSet(ev.cache, [key |-> key, data |-> data,
                                            timestamp |-> now, ttl |-> ttl,
                                            accessCount |-> 1, lastAccessed |-> now]),
              evicted |-> ev.evicted]

setCachedData(cache, key, data, ttl, now) ==
    LET ev == IF Len(cache) >= config.maxSize /\ ~MapHas(cache, key)
              THEN evictLeastRecentlyUsed(cache, now)
              ELSE [cache |-> cache, evicted |-> 0]
    IN  [cache   |-> MapSet(ev.cache, [key |-> key, data |-> data, timestamp |-> now,
                                       ttl |-> ttl, accessCount |-> 1,
                                       lastAccessed |-> now]),
         evicted |-> ev.evicted]

\* a has that only asks the Map
hasValidCacheEntry_IgnoresTtl(cache, key, now) == MapHas(cache, key)

hasValidCacheEntry(cache, key, now) ==
    LET i == IndexOf(cache, key) IN
    IF i = 0 THEN FALSE ELSE ~isExpired(cache[i], now)

\* a sweep that takes an entry at the instant its age reaches its ttl
removeExpiredEntries_Inclusive(cache, now) ==
    SelectSeq(cache, LAMBDA e : (now - e.timestamp) < e.ttl)

\* the entries removeExpiredEntries leaves in one Map
removeExpiredEntries(cache, now) == SelectSeq(cache, LAMBDA e : ~isExpired(e, now))

\* a count of the hits alone
updateMetrics_HitsOnly(m, isHit) ==
    IF ~config.enableMetrics THEN m
    ELSE [m EXCEPT !.hits = IF isHit THEN @ + 1 ELSE @]

updateMetrics(m, isHit) ==
    IF ~config.enableMetrics THEN m
    ELSE [m EXCEPT !.hits   = IF isHit THEN @ + 1 ELSE @,
                   !.misses = IF isHit THEN @ ELSE @ + 1]

\* a count of the operations that removed entries
updateEvictionMetrics_PerOperation(m, count) ==
    IF ~config.enableMetrics THEN m
    ELSE [m EXCEPT !.evictions = @ + IF count > 0 THEN 1 ELSE 0]

updateEvictionMetrics(m, count) ==
    IF ~config.enableMetrics THEN m
    ELSE [m EXCEPT !.evictions = @ + count]

resetMetrics == [hits |-> 0, misses |-> 0, evictions |-> 0]

\* metrics().hitRate, a fraction as <<numerator, denominator>>
hitRate(m) ==
    LET totalRequests == m.hits + m.misses IN
    IF totalRequests > 0 THEN <<m.hits * 100, totalRequests>> ELSE <<0, 1>>

\* metrics().size
size(dates, locations) == Len(dates) + Len(locations)

datesTtl == config.defaultTtl          \* ttl ?? this.config.defaultTtl
locationTtl == config.defaultTtl * 2   \* ttl ?? this.config.defaultTtl * 2

---------------------------------------------------------------------------
(* LocationHistoryService: statistics *)

DegreeMetres == 111195   \* R * (pi / 180) for R = 6371e3, in whole metres

Abs(x) == IF x < 0 THEN -x ELSE x
Max2(a, b) == IF a > b THEN a ELSE b
Min2(a, b) == IF a < b THEN a ELSE b

\* a speed left in metres per second
speedKmh_Unconverted(point) == point.speed

\* Math.round(point.speed * 3.6) for a speed >= 0
speedKmh(point) == (point.speed * 36 + 5) \div 10

\* Math.round(heading / 45) for a whole number of degrees: a tie would need
\* heading = 45 k + 22.5
RoundedOctant(heading) == (2 * heading + 45) \div 90

\* a % n of JavaScript: the remainder has the sign of the dividend
JsRem(a, n) == IF a >= 0 THEN a % n ELSE -((-a) % n)

directions == <<"N", "NE", "E", "SE", "S", "SW", "W", "NW">>

\* directions[index]; an index outside the array gives undefined
getDirectionText(heading) ==
    LET index == JsRem(RoundedOctant(heading), 8) IN
    IF index \in 0..(Len(directions) - 1) THEN directions[index + 1]
    ELSE "undefined"

\* the haversine distance between two points of the equator (lat = 0), where it
\* is R times the difference of the longitudes in radians
calculateDistance(point1, point2) == DegreeMetres * Abs(point2.lng - point1.lng)

RECURSIVE SumSeq(_)
SumSeq(s) == IF s = <<>> THEN 0 ELSE Head(s) + SumSeq(Tail(s))

RECURSIVE MaxSeq(_)
MaxSeq(s) == IF Len(s) = 1 THEN s[1] ELSE Max2(Head(s), MaxSeq(Tail(s)))

RECURSIVE MinSeq(_)
MinSeq(s) == IF Len(s) = 1 THEN s[1] ELSE Min2(Head(s), MinSeq(Tail(s)))

\* statistics whose average counts the samples that stand still
updateStatistics_CountsStationary(locations) ==
    IF Len(locations) = 0 THEN None
    ELSE
      LET n         == Len(locations)
          speeds    == [i \in 1..n |-> speedKmh(locations[i])]
          distances == [i \in 1..n |->
                          IF i > 1
                          THEN calculateDistance(locations[i - 1], locations[i])
                          ELSE 0]
          lats      == [i \in 1..n |-> locations[i].lat]
          lngs      == [i \in 1..n |-> locations[i].lng]
      IN  Some([totalPoints   |-> n,
                totalDistance |-> SumSeq(distances),
                maxSpeed      |-> IF Len(speeds) > 0 THEN MaxSeq(speeds) ELSE 0,
                averageSpeed  |-> IF Len(speeds) > 0
                                  THEN <<SumSeq(speeds), Len(speeds)>>
                                  ELSE <<0, 1>>,
                duration      |-> locations[n].utcTime - locations[1].utcTime,
                startTime     |-> locations[1].utcTime,
                endTime       |-> locations[n].utcTime,
                bounds        |-> [south |-> MinSeq(lats), west |-> MinSeq(lngs),
                                   north |-> MaxSeq(lats), east |-> MaxSeq(lngs)]])

\* statistics that are a record of zeros for a track without samples
updateStatistics_ZeroRecord(locations) ==
    IF Len(locations) = 0
    THEN Some([totalPoints |-> 0, totalDistance |-> 0, maxSpeed |-> 0,
               averageSpeed |-> <<0, 1>>, duration |-> 0, startTime |-> 0,
               endTime |-> 0,
               bounds |-> [south |-> 0, west |-> 0, north |-> 0, east |-> 0]])
    ELSE
      LET n         == Len(locations)
          speeds    == SelectSeq([i \in 1..n |-> speedKmh(locations[i])],
                                 LAMBDA x : x > 0)
          distances == [i \in 1..n |->
                          IF i > 1
                          THEN calculateDistance(locations[i - 1], locations[i])
                          ELSE 0]
          lats      == [i \in 1..n |-> locations[i].lat]
          lngs      == [i \in 1..n |-> locations[i].lng]
      IN  Some([totalPoints   |-> n,
                totalDistance |-> SumSeq(distances),
                maxSpeed      |-> IF Len(speeds) > 0 THEN MaxSeq(speeds) ELSE 0,
                averageSpeed  |-> IF Len(speeds) > 0
                                  THEN <<SumSeq(speeds), Len(speeds)>>
                                  ELSE <<0, 1>>,
                duration      |-> locations[n].utcTime - locations[1].utcTime,
                startTime     |-> locations[1].utcTime,
                endTime       |-> locations[n].utcTime,
                bounds        |-> [south |-> MinSeq(lats), west |-> MinSeq(lngs),
                                   north |-> MaxSeq(lats), east |-> MaxSeq(lngs)]])

\* the value updateStatistics gives _statistics; averageSpeed is the quotient
\* sum / count, kept as the pair of the two
updateStatistics(locations) ==
    IF Len(locations) = 0 THEN None
    ELSE
      LET n         == Len(locations)
          speeds    == SelectSeq([i \in 1..n |-> speedKmh(locations[i])],
                                 LAMBDA x : x > 0)
          distances == [i \in 1..n |->
                          IF i > 1
                          THEN calculateDistance(locations[i - 1], locations[i])
                          ELSE 0]
          lats      == [i \in 1..n |-> locations[i].lat]
          lngs      == [i \in 1..n |-> locations[i].lng]
      IN  Some([totalPoints   |-> n,
                totalDistance |-> SumSeq(distances),
                maxSpeed      |-> IF Len(speeds) > 0 THEN MaxSeq(speeds) ELSE 0,
                averageSpeed  |-> IF Len(speeds) > 0
                                  THEN <<SumSeq(speeds), Len(speeds)>>
                                  ELSE <<0, 1>>,
                duration      |-> locations[n].utcTime - locations[1].utcTime,
                startTime     |-> locations[1].utcTime,
                endTime       |-> locations[n].utcTime,
                bounds        |-> [south |-> MinSeq(lats), west |-> MinSeq(lngs),
                                   north |-> MaxSeq(lats), east |-> MaxSeq(lngs)]])

\* enhanceLocationData; the fields of the point are kept under point
enhanceLocationData(data) ==
    [index \in 1..Len(data) |->
        [point                |-> data[index],
         speedKmh             |-> speedKmh(data[index]),
         directionText        |-> getDirectionText(data[index].heading),
         distanceFromPrevious |-> IF index > 1
                                  THEN Some(calculateDistance(data[index - 1],
                                                              data[index]))
                                  ELSE None]]

---------------------------------------------------------------------------
(* Remote calls in flight *)

DatesError == "Failed to load available dates"
TrackError == "Failed to load location data"

\* what one attempt of a remote call can end in, besides a 200 answer with code 200:
\*   timeout    no answer within timeout(...)
\*   transport  HttpErrorResponse, status 0
\*   status     HttpErrorResponse, a status outside 2xx
\*   code       a 2xx answer whose body has code # 200
\*   malformed  a 2xx answer without a body: reading response.code throws
Retried    == {"timeout", "transport", "status"}   \* errors upstream of retry(...)
NotRetried == {"code", "malformed"}                \* errors thrown by map(...)
Failures   == Retried \cup NotRetried

TrackKeys == Devices \X TrackDays
CacheKeys == Devices \X (0..maxSize)   \* the keys given to a cache directly: one more than it holds

EmptyBag == [k \in TrackKeys |-> 0]

RECURSIVE SumOver(_, _)
SumOver(f, S) ==
    IF S = {} THEN 0
    ELSE LET x == CHOOSE y \in S : TRUE IN f[x] + SumOver(f, S \ {x})

BagSize(b) == SumOver(b, TrackKeys)

RemoveAt(s, i) == [j \in 1..(Len(s) - 1) |-> IF j < i THEN s[j] ELSE s[j + 1]]

TrackCalls(q) == {i \in 1..Len(q) : q[i].kind = "track"}

Call(kind, key) == [kind |-> kind, key |-> key, attempts |-> 0, peer |-> None]

\* the cache reads counted, and with them accessCount, stay within MaxCalls
Capped(m, cache) == m.hits + m.misses <= MaxCalls

---------------------------------------------------------------------------
(* Initial state: both services constructed *)

Init ==
    /\ clock = 0
    /\ availableDatesCache = <<>>
    /\ locationDataCache = <<>>
    /\ metrics = resetMetrics
    /\ config = [maxSize |-> maxSize, defaultTtl |-> defaultTtl,
                 enableMetrics |-> TRUE]
    /\ selectedDevice = None
    /\ selectedDate = None
    /\ availableDates = [k \in DatesKeys |-> None]
    /\ locationData = <<>>
    /\ loading = FALSE
    /\ error = NoError
    /\ statistics = None
    /\ fg = <<>>
    /\ bg = EmptyBag

---------------------------------------------------------------------------
(* LocationHistoryService: operations *)

\* a getAvailableDates that raises loading before it looks in the cache
getAvailableDates_LoadingFirst(targetId, month) ==
    LET cacheKey == <<targetId, month>>
        g == getCachedData(availableDatesCache, cacheKey, clock)
        m == updateMetrics(updateEvictionMetrics(metrics, g.evicted), g.result # None)
    IN  /\ Capped(m, g.cache)
        /\ availableDatesCache' = g.cache
        /\ metrics' = m
        /\ loading' = TRUE
        /\ error' = NoError
        /\ IF g.result # None
           THEN /\ availableDates' = [availableDates EXCEPT ![cacheKey] = g.result]
                /\ UNCHANGED fg
           ELSE /\ fg' = Append(fg, Call("dates", cacheKey))
                /\ UNCHANGED availableDates
        /\ UNCHANGED <<clock, locationDataCache, selectedDevice, selectedDate,
                       locationData, statistics, bg>>

\* getAvailableDates, to the point where the caller has subscribed
getAvailableDates(targetId, month) ==
    LET cacheKey == <<targetId, month>>
        g == getCachedData(availableDatesCache, cacheKey, clock)
        m == updateMetrics(updateEvictionMetrics(metrics, g.evicted), g.result # None)
    IN  /\ Capped(m, g.cache)
        /\ availableDatesCache' = g.cache
        /\ metrics' = m
        /\ IF g.result # None
           THEN /\ availableDates' = [availableDates EXCEPT ![cacheKey] = g.result]
                /\ UNCHANGED <<loading, error, fg>>
           ELSE /\ loading' = TRUE
                /\ error' = NoError
                /\ fg' = Append(fg, Call("dates", cacheKey))
                /\ UNCHANGED availableDates
        /\ UNCHANGED <<clock, locationDataCache, selectedDevice, selectedDate,
                       locationData, statistics, bg>>

\* a getLocationData that takes a cached empty track for no track
getLocationData_EmptyIsMiss(targetId, date) ==
    LET cacheKey == <<targetId, date>>
        g == getCachedData(locationDataCache, cacheKey, clock)
        m == updateMetrics(updateEvictionMetrics(metrics, g.evicted), g.result # None)
    IN  /\ Capped(m, g.cache)
        /\ locationDataCache' = g.cache
        /\ metrics' = m
        /\ IF g.result # None /\ g.result # Some(<<>>)
           THEN /\ locationData' = g.result[1]
                /\ UNCHANGED <<loading, error, fg>>
           ELSE /\ loading' = TRUE
                /\ error' = NoError
                /\ fg' = Append(fg, Call("track", cacheKey))
                /\ UNCHANGED locationData
        /\ UNCHANGED <<clock, availableDatesCache, selectedDevice, selectedDate,
                       availableDates, statistics, bg>>

\* getLocationData, to the point where the caller has subscribed
getLocationData(targetId, date) ==
    LET cacheKey == <<targetId, date>>
        g == getCachedData(locationDataCache, cacheKey, clock)
        m == updateMetrics(updateEvictionMetrics(metrics, g.evicted), g.result # None)
    IN  /\ Capped(m, g.cache)
        /\ locationDataCache' = g.cache
        /\ metrics' = m
        /\ IF g.result # None
           THEN /\ locationData' = g.result[1]
                /\ UNCHANGED <<loading, error, fg>>
           ELSE /\ loading' = TRUE
                /\ error' = NoError
                /\ fg' = Append(fg, Call("track", cacheKey))
                /\ UNCHANGED locationData
        /\ UNCHANGED <<clock, availableDatesCache, selectedDevice, selectedDate,
                       availableDates, statistics, bg>>

setSelectedDevice(deviceId) ==
    /\ selectedDevice' = deviceId
    /\ error' = NoError
    /\ UNCHANGED <<clock, cacheVars, selectedDate, availableDates, locationData,
                   loading, statistics, netVars>>

\* a selection change that drops the tracks held for the old selection
setSelectedDate_DropsEntries(date) ==
    /\ selectedDate' = date
    /\ error' = NoError
    /\ locationDataCache' = <<>>
    /\ UNCHANGED <<clock, availableDatesCache, metrics, selectedDevice,
                   availableDates, locationData, loading, statistics, netVars>>

setSelectedDate(date) ==
    /\ selectedDate' = date
    /\ error' = NoError
    /\ UNCHANGED <<clock, cacheVars, selectedDevice, availableDates, locationData,
                   loading, statistics, netVars>>

\* a clear that leaves the counters
clearAll_KeepsCounters ==
    /\ availableDatesCache' = <<>>
    /\ locationDataCache' = <<>>
    /\ metrics' = metrics

\* LocationCacheService.clearAll
clearAll ==
    /\ availableDatesCache' = <<>>
    /\ locationDataCache' = <<>>
    /\ metrics' = resetMetrics

clearData ==
    /\ selectedDevice' = None
    /\ selectedDate' = None
    /\ locationData' = <<>>
    /\ availableDates' = [k \in DatesKeys |-> None]
    /\ statistics' = None
    /\ error' = NoError
    /\ clearAll
    /\ UNCHANGED <<clock, loading, netVars>>

\* refreshData: clearAll, then getLocationData on the emptied cache
refreshData ==
    IF selectedDevice = None \/ selectedDate = None
    THEN UNCHANGED vars
    ELSE LET cacheKey == <<selectedDevice[1], selectedDate[1]>>
             g == getCachedData(<<>>, cacheKey, clock)
             m == updateMetrics(updateEvictionMetrics(resetMetrics, g.evicted),
                                g.result # None)
         IN  /\ availableDatesCache' = <<>>
             /\ locationDataCache' = g.cache
             /\ metrics' = m
             /\ loading' = TRUE
             /\ error' = NoError
             /\ fg' = Append(fg, Call("track", cacheKey))
             /\ UNCHANGED <<clock, selectedDevice, selectedDate, availableDates,
                            locationData, statistics, bg>>

---------------------------------------------------------------------------
(* Remote answers *)

\* a retry without a count
RemoteRetry_Unbounded(i, f) ==
    /\ i \in 1..Len(fg)
    /\ f \in Retried
    /\ fg' = [fg EXCEPT ![i].attempts = @ + 1]
    /\ UNCHANGED <<clock, cacheVars, storeVars, bg>>

\* retry({ count: 2, ... }): an error upstream of retry starts the call again
RemoteRetry(i, f) ==
    /\ i \in 1..Len(fg)
    /\ f \in Retried
    /\ fg[i].attempts < RetryCount
    /\ fg' = [fg EXCEPT ![i].attempts = @ + 1]
    /\ UNCHANGED <<clock, cacheVars, storeVars, bg>>

\* whether failure f ends call i: errors thrown by map(...) always, the others
\* once the retries are used up
Final(i, f) == f \in NotRetried \/ fg[i].attempts = RetryCount

DatesOk(i, dates) ==
    /\ i \in 1..Len(fg)
    /\ fg[i].kind = "dates"
    /\ LET p == setCachedData(availableDatesCache, fg[i].key, dates, datesTtl, clock)
       IN  /\ availableDatesCache' = p.cache
           /\ metrics' = updateEvictionMetrics(metrics, p.evicted)
    /\ availableDates' = [availableDates EXCEPT ![fg[i].key] = Some(dates)]
    /\ loading' = FALSE
    /\ fg' = RemoveAt(fg, i)
    /\ UNCHANGED <<clock, locationDataCache, selectedDevice, selectedDate,
                   locationData, error, statistics, bg>>

\* a catchError that hands the error on to the subscriber
catchError_Rethrow(message) ==
    [next |-> None, error |-> Some(message), lastError |-> NoError]

\* catchError of a foreground pipeline: handleError(message, error), then
\* of([]); what the subscriber is sent next, the error it is sent, and the
\* message left in errorSubject
catchError(message) ==
    [next |-> Some(<<>>), error |-> None, lastError |-> message]

\* a failure path without the finalize
DatesFail_KeepsLoading(i, f) ==
    /\ i \in 1..Len(fg)
    /\ fg[i].kind = "dates"
    /\ Final(i, f)
    /\ error' = DatesError
    /\ fg' = RemoveAt(fg, i)
    /\ UNCHANGED <<clock, cacheVars, selectedDevice, selectedDate, availableDates,
                   locationData, loading, statistics, bg>>

DatesFail(i, f) ==
    /\ i \in 1..Len(fg)
    /\ fg[i].kind = "dates"
    /\ Final(i, f)
    /\ error' = catchError(DatesError).lastError
    /\ loading' = FALSE
    /\ fg' = RemoveAt(fg, i)
    /\ UNCHANGED <<clock, cacheVars, selectedDevice, selectedDate, availableDates,
                   locationData, statistics, bg>>

\* a prefetch that does not ask the cache first
prefetchAdjacentDates_Always(cache, targetId, currentDate, now) ==
    {<<targetId, currentDate + offset>> : offset \in {-1, 1}}

\* a prefetch of the previous day only
prefetchAdjacentDates_PreviousOnly(cache, targetId, currentDate, now) ==
    {<<targetId, currentDate + offset>> : offset \in
        {o \in {-1} :
            ~hasValidCacheEntry(cache, <<targetId, currentDate + o>>, now)}}

\* the keys prefetchAdjacentDates starts a remote call for
prefetchAdjacentDates(cache, targetId, currentDate, now) ==
    {<<targetId, currentDate + offset>> : offset \in
        {o \in {-1, 1} :
            ~hasValidCacheEntry(cache, <<targetId, currentDate + o>>, now)}}

\* the calls left in flight when track call i has answered d; every other track
\* call notes the answer and whether it went to an older or a newer call
AfterTrackOk(q, i, d) ==
    RemoveAt([j \in 1..Len(q) |->
                IF j # i /\ q[j].kind = "track"
                THEN [q[j] EXCEPT !.peer =
                        Some([key |-> q[i].key, data |-> d,
                              order |-> IF i < j THEN "older" ELSE "newer"])]
                ELSE q[j]], i)

TrackOk(i, locations) ==
    /\ i \in 1..Len(fg)
    /\ fg[i].kind = "track"
    /\ LET p == setCachedData(locationDataCache, fg[i].key, locations, locationTtl,
                              clock)
           started == prefetchAdjacentDates(p.cache, fg[i].key[1], fg[i].key[2],
                                            clock)
       IN  /\ BagSize(bg) + Cardinality(started) <= MaxBg
           /\ locationDataCache' = p.cache
           /\ metrics' = updateEvictionMetrics(metrics, p.evicted)
           /\ bg' = [k \in TrackKeys |-> bg[k] + IF k \in started THEN 1 ELSE 0]
    /\ locationData' = locations
    /\ statistics' = updateStatistics(locations)
    /\ loading' = FALSE
    /\ fg' = AfterTrackOk(fg, i, locations)
    /\ UNCHANGED <<clock, availableDatesCache, selectedDevice, selectedDate,
                   availableDates, error>>

\* a catchError that stores the empty list it hands on
TrackFail_CachesEmpty(i, f) ==
    /\ i \in 1..Len(fg)
    /\ fg[i].kind = "track"
    /\ Final(i, f)
    /\ LET p == setCachedData(locationDataCache, fg[i].key, <<>>, locationTtl, clock)
       IN  /\ locationDataCache' = p.cache
           /\ metrics' = updateEvictionMetrics(metrics, p.evicted)
    /\ error' = TrackError
    /\ locationData' = <<>>
    /\ loading' = FALSE
    /\ fg' = RemoveAt(fg, i)
    /\ UNCHANGED <<clock, availableDatesCache, selectedDevice, selectedDate,
                   availableDates, statistics, bg>>

TrackFail(i, f) ==
    /\ i \in 1..Len(fg)
    /\ fg[i].kind = "track"
    /\ Final(i, f)
    /\ error' = catchError(TrackError).lastError
    /\ locationData' = <<>>
    /\ loading' = FALSE
    /\ fg' = RemoveAt(fg, i)
    /\ UNCHANGED <<clock, cacheVars, selectedDevice, selectedDate, availableDates,
                   statistics, bg>>

\* a prefetch answer that starts the prefetch of its own neighbours
PrefetchAnswer_Chains(key, data) ==
    /\ bg[key] > 0
    /\ LET p == setCachedData(locationDataCache, key, data, locationTtl, clock)
           started == {<<key[1], key[2] + o>> : o \in {-1, 1}}
       IN  /\ locationDataCache' = p.cache
           /\ metrics' = updateEvictionMetrics(metrics, p.evicted)
           /\ bg' = [k \in TrackKeys |->
                       IF k = key THEN bg[k] - 1
                       ELSE IF k \in started /\ ~hasValidCacheEntry(p.cache, k, clock)
                            THEN bg[k] + 1 ELSE bg[k]]
    /\ UNCHANGED <<clock, availableDatesCache, storeVars, fg>>

\* a prefetch answer that goes through the tap of getLocationData
PrefetchAnswer_UpdatesState(key, data) ==
    /\ bg[key] > 0
    /\ LET p == setCachedData(locationDataCache, key, data, locationTtl, clock)
       IN  /\ locationDataCache' = p.cache
           /\ metrics' = updateEvictionMetrics(metrics, p.evicted)
    /\ bg' = [bg EXCEPT ![key] = @ - 1]
    /\ locationData' = data
    /\ statistics' = updateStatistics(data)
    /\ UNCHANGED <<clock, availableDatesCache, selectedDevice, selectedDate,
                   availableDates, loading, error, fg>>

\* a prefetch answer with a body: map(response => response.data || []), then the
\* tap caches it; the body of an answer with code # 200 carries no data
PrefetchAnswer(key, data) ==
    /\ bg[key] > 0
    /\ LET p == setCachedData(locationDataCache, key, data, locationTtl, clock)
       IN  /\ locationDataCache' = p.cache
           /\ metrics' = updateEvictionMetrics(metrics, p.evicted)
    /\ bg' = [bg EXCEPT ![key] = @ - 1]
    /\ UNCHANGED <<clock, availableDatesCache, storeVars, fg>>

PrefetchOk(key, locations) == PrefetchAnswer(key, locations)

PrefetchCode(key) == PrefetchAnswer(key, <<>>)

\* a prefetch answer that is an error, or has no body: catchError(() => of([]))
PrefetchFail(key) ==
    /\ bg[key] > 0
    /\ bg' = [bg EXCEPT ![key] = @ - 1]
    /\ UNCHANGED <<clock, cacheVars, storeVars, fg>>

---------------------------------------------------------------------------
(* Time *)

\* Date.now() moves on by one unit
CacheTick ==
    /\ clock < CacheMaxClock
    /\ clock' = clock + 1
    /\ UNCHANGED <<cacheVars, storeVars, netVars>>

\* the application is left alone for longer than either TTL
Elapse ==
    /\ clock + locationTtl + 1 <= MaxClock
    /\ clock' = clock + locationTtl + 1
    /\ UNCHANGED <<cacheVars, storeVars, netVars>>

\* clearExpired, run by the cleanup interval
clearExpired ==
    LET dates == removeExpiredEntries(availableDatesCache, clock)
        locs  == removeExpiredEntries(locationDataCache, clock)
        expiredCount == (Len(availableDatesCache) - Len(dates))
                        + (Len(locationDataCache) - Len(locs))
    IN  /\ availableDatesCache' = dates
        /\ locationDataCache' = locs
        /\ metrics' = updateEvictionMetrics(metrics, expiredCount)
        /\ UNCHANGED <<clock, storeVars, netVars>>

---------------------------------------------------------------------------
(* The store with its remote archive *)

\* a step of the service or of its environment
Step(days) ==
    \/ \E t \in Devices, m \in Months : getAvailableDates(t, m)
    \/ \E t \in Devices, d \in days : getLocationData(t, d)
    \/ \E t \in Devices : setSelectedDevice(Some(t))
    \/ setSelectedDevice(None)
    \/ \E d \in days : setSelectedDate(Some(d))
    \/ setSelectedDate(None)
    \/ clearData
    \/ refreshData
    \/ \E i \in 1..Len(fg), f \in Failures : RemoteRetry(i, f)
    \/ \E i \in 1..Len(fg), l \in DayLists : DatesOk(i, l)
    \/ \E i \in 1..Len(fg), f \in Failures : DatesFail(i, f)
    \/ \E i \in 1..Len(fg) : TrackOk(i, RemoteTrack(fg[i].key))
    \/ \E i \in 1..Len(fg), f \in Failures : TrackFail(i, f)
    \/ \E k \in TrackKeys : PrefetchOk(k, RemoteTrack(k))
    \/ \E k \in TrackKeys : PrefetchCode(k)
    \/ \E k \in TrackKeys : PrefetchFail(k)
    \/ Elapse
    \/ clearExpired

\* one foreground call at a time
Next == Step(Days) /\ Len(fg') <= 1 /\ UNCHANGED config

Spec == Init /\ [][Next]_vars

\* overlapping foreground calls, at one instant
ConcStep ==
    \/ \E t \in Devices, m \in Months : getAvailableDates(t, m)
    \/ \E t \in Devices, d \in Days2 : getLocationData(t, d)
    \/ \E d \in Days2 : setSelectedDate(Some(d))
    \/ \E i \in 1..Len(fg), f \in Failures : RemoteRetry(i, f)
    \/ \E i \in 1..Len(fg), l \in DayLists : DatesOk(i, l)
    \/ \E i \in 1..Len(fg), f \in Failures : DatesFail(i, f)
    \/ \E i \in 1..Len(fg) : TrackOk(i, RemoteTrack(fg[i].key))
    \/ \E i \in 1..Len(fg), f \in Failures : TrackFail(i, f)
    \/ \E k \in TrackKeys : PrefetchOk(k, RemoteTrack(k))
    \/ \E k \in TrackKeys : PrefetchFail(k)

ConcNext == ConcStep /\ Len(fg') <= MaxFg /\ UNCHANGED config

ConcSpec == Init /\ [][ConcNext]_vars

---------------------------------------------------------------------------
(* LocationCacheService used directly, under a clock that moves by units *)

cacheGetAvailableDates(key) ==
    LET g == getCachedData(availableDatesCache, key, clock)
        m == updateMetrics(updateEvictionMetrics(metrics, g.evicted), g.result # None)
    IN  /\ Capped(m, g.cache)
        /\ availableDatesCache' = g.cache
        /\ metrics' = m
        /\ UNCHANGED <<clock, locationDataCache, storeVars, netVars>>

cacheGetLocationData(key) ==
    LET g == getCachedData(locationDataCache, key, clock)
        m == updateMetrics(updateEvictionMetrics(metrics, g.evicted), g.result # None)
    IN  /\ Capped(m, g.cache)
        /\ locationDataCache' = g.cache
        /\ metrics' = m
        /\ UNCHANGED <<clock, availableDatesCache, storeVars, netVars>>

cacheSetAvailableDates(key, data) ==
    LET p == setCachedData(availableDatesCache, key, data, datesTtl, clock)
    IN  /\ metrics.evictions + p.evicted <= MaxEvictions
        /\ availableDatesCache' = p.cache
        /\ metrics' = updateEvictionMetrics(metrics, p.evicted)
        /\ UNCHANGED <<clock, locationDataCache, storeVars, netVars>>

cacheSetLocationData(key, data) ==
    LET p == setCachedData(locationDataCache, key, data, locationTtl, clock)
    IN  /\ metrics.evictions + p.evicted <= MaxEvictions
        /\ locationDataCache' = p.cache
        /\ metrics' = updateEvictionMetrics(metrics, p.evicted)
        /\ UNCHANGED <<clock, availableDatesCache, storeVars, netVars>>

\* hasAvailableDates and hasLocationData only read
cacheHas(key) ==
    /\ hasValidCacheEntry(availableDatesCache, key, clock) \in BOOLEAN
    /\ hasValidCacheEntry(locationDataCache, key, clock) \in BOOLEAN
    /\ UNCHANGED vars

cacheClearAll ==
    /\ clearAll
    /\ UNCHANGED <<clock, storeVars, netVars>>

OneKey == {<<1, 1>>}        \* the key given to the location cache directly
PutLists == {<<1, 3>>}      \* the day list given to the availability cache directly

CacheStep ==
    \/ \E k \in CacheKeys : cacheGetAvailableDates(k)
    \/ \E k \in OneKey : cacheGetLocationData(k)
    \/ \E k \in CacheKeys, l \in PutLists : cacheSetAvailableDates(k, l)
    \/ \E k \in OneKey, d \in Tracks : cacheSetLocationData(k, d)
    \/ \E k \in CacheKeys : cacheHas(k)
    \/ cacheClearAll
    \/ clearExpired
    \/ CacheTick

CacheNext == CacheStep /\ UNCHANGED config

CacheSpec == Init /\ [][CacheNext]_vars

---------------------------------------------------------------------------
(* The track path over the tracks the remote archive may answer with *)

\* the computed signal enhancedLocationData
enhancedLocationData == enhanceLocationData(locationData)

Samples ==
    {LocationPoint(t, lng, speed, 0) :
        t \in {0, 1000}, lng \in {0, 1}, speed \in {0, 1, 10}}

RECURSIVE SeqsUpTo(_, _)
SeqsUpTo(S, n) ==
    IF n = 0 THEN {<<>>}
    ELSE LET shorter == SeqsUpTo(S, n - 1)
         IN  shorter \cup {Append(q, x) : q \in shorter, x \in S}

\* response.data: tracks of up to MaxPoints samples, and one-sample tracks of
\* every heading
InputTracks ==
    SeqsUpTo(Samples, MaxPoints)
    \cup {<<LocationPoint(0, 0, 5, h)>> : h \in (-MaxHeading)..MaxHeading}

TrackStep ==
    \/ \E t \in Devices, d \in Days : getLocationData(t, d)
    \/ \E i \in 1..Len(fg), l \in InputTracks : TrackOk(i, l)

TrackNext == TrackStep /\ Len(fg') <= 1 /\ UNCHANGED config

TrackSpec == Init /\ [][TrackNext]_vars

---------------------------------------------------------------------------
(* The availability cache while its configuration is changed *)

\* Partial<CacheConfig>: any of the fields, each absent or with a value
NewConfigs ==
    [maxSize       : {None} \cup {Some(n) : n \in {0, maxSize}},
     defaultTtl    : {None} \cup {Some(t) : t \in {-1, defaultTtl}},
     enableMetrics : {None} \cup {Some(b) : b \in BOOLEAN}]

\* updateConfig: Object.assign(this.config, newConfig)
updateConfig(newConfig) ==
    /\ config' = [f \in DOMAIN config |->
                     IF newConfig[f] # None THEN newConfig[f][1] ELSE config[f]]
    /\ UNCHANGED <<clock, cacheVars, storeVars, netVars>>

\* a read of the availability cache; accessCount is kept within the model
cacheRead(key) ==
    /\ cacheGetAvailableDates(key)
    /\ \A i \in 1..Len(availableDatesCache') :
          availableDatesCache'[i].accessCount <= MaxCalls + 1
    /\ UNCHANGED config

ConfigNext ==
    \/ \E c \in NewConfigs : updateConfig(c)
    \/ \E k \in CacheKeys, l \in PutLists :
          cacheSetAvailableDates(k, l) /\ UNCHANGED config
    \/ \E k \in CacheKeys : cacheRead(k)

ConfigSpec == Init /\ [][ConfigNext]_vars

---------------------------------------------------------------------------
(* The track path when every prefetch call is answered, and answered well *)

FairStep ==
    \/ \E t \in Devices, d \in Days : getLocationData(t, d)
    \/ clearData
    \/ \E i \in 1..Len(fg), f \in Failures : RemoteRetry(i, f)
    \/ \E i \in 1..Len(fg) : TrackOk(i, RemoteTrack(fg[i].key))
    \/ \E i \in 1..Len(fg), f \in Failures : TrackFail(i, f)
    \/ \E k \in TrackKeys : PrefetchOk(k, RemoteTrack(k))
    \/ Elapse
    \/ clearExpired

FairNext == FairStep /\ Len(fg') <= 1 /\ UNCHANGED config

FairSpec ==
    /\ Init
    /\ [][FairNext]_vars
    /\ \A k \in TrackKeys :
          WF_vars(PrefetchOk(k, RemoteTrack(k)) /\ UNCHANGED config)

\* the remote, or the timeout of the pipeline, ends an attempt of call i
Answer(i) ==
    \/ \E f \in Failures : RemoteRetry(i, f)
    \/ \E l \in DayLists : DatesOk(i, l)
    \/ \E f \in Failures : DatesFail(i, f)
    \/ TrackOk(i, RemoteTrack(fg[i].key))
    \/ \E f \in Failures : TrackFail(i, f)

\* overlapping foreground calls whose attempts all end: timeout(10000) and
\* timeout(15000) end an attempt the remote leaves unanswered
ConcFairSpec ==
    /\ Init
    /\ [][ConcNext]_vars
    /\ WF_vars((\E i \in 1..Len(fg) : Answer(i)) /\ UNCHANGED config)

---------------------------------------------------------------------------
(* Claims *)

\* C1 (Supersession).  When two track loads overlap and the later-issued one is
\* for the selected date, then at the answer that resolves the second of the
\* two, whichever order the answers came in, locationData is the result of the
\* later-issued load and the result of the earlier-issued load is in the
\* location cache.
C1_Supersession ==
    [][\A i \in 1..Len(fg) :
         (/\ fg[i].kind = "track"
          /\ fg[i].peer # None
          /\ TrackCalls(fg) = {i}
          /\ TrackOk(i, RemoteTrack(fg[i].key)))
         => LET p == fg[i].peer[1]
                older == p.order = "older"
                keyA  == IF older THEN p.key ELSE fg[i].key
                keyB  == IF older THEN fg[i].key ELSE p.key
                dataA == IF older THEN p.data ELSE RemoteTrack(fg[i].key)
                dataB == IF older THEN RemoteTrack(fg[i].key) ELSE p.data
            IN  (keyA # keyB /\ selectedDate = Some(keyB[2]))
                => /\ locationData' = dataB
                   /\ MapHas(locationDataCache', keyA)
                   /\ EntryOf(locationDataCache', keyA).data = dataA]_vars

\* C2 (Capacity bound).  Neither cache ever holds more than maxSize entries.
C2_CapacityBound ==
    /\ Len(availableDatesCache) <= maxSize
    /\ Len(locationDataCache) <= maxSize

\* the put of a new key into the full availability cache that removes something
PutEvicts(key, data) ==
    /\ cacheSetAvailableDates(key, data)
    /\ ~MapHas(availableDatesCache, key)
    /\ Len(availableDatesCache) >= maxSize
    /\ ~(MapKeys(availableDatesCache) \subseteq MapKeys(availableDatesCache'))

\* C3 (Eviction victim).  When a put of a new key into a full cache evicts, it
\* removes exactly one entry, the one with the smallest lastAccessed, the first
\* of them in insertion order when several share it; the other entries stay as
\* they were and in their order, and the eviction counter rises by one.
C3_EvictionVictim ==
    [][\A key \in CacheKeys, data \in PutLists :
         PutEvicts(key, data)
         => \E v \in 1..Len(availableDatesCache) :
              /\ \A j \in 1..Len(availableDatesCache) :
                    /\ availableDatesCache[j].lastAccessed
                         >= availableDatesCache[v].lastAccessed
                    /\ j < v => availableDatesCache[j].lastAccessed
                                  > availableDatesCache[v].lastAccessed
              /\ Len(availableDatesCache') = Len(availableDatesCache)
              /\ SubSeq(availableDatesCache', 1, Len(availableDatesCache) - 1)
                   = RemoveAt(availableDatesCache, v)
              /\ availableDatesCache'[Len(availableDatesCache')].key = key
              /\ metrics'.evictions = metrics.evictions + 1]_vars

\* of two entries last used at one instant an eviction has taken the first, at
\* an instant when nothing can have expired
C3_Witness ==
    /\ clock = 1
    /\ metrics.evictions = 1
    /\ Len(availableDatesCache) = maxSize
    /\ availableDatesCache[1].lastAccessed = 0
    /\ availableDatesCache[maxSize].timestamp = 1

C5_ErrorStateOnFailure ==
    [][\A i \in 1..Len(fg), f \in Failures :
         TrackFail(i, f)
         => /\ locationData' = <<>>
            /\ statistics' = None
            /\ error' # NoError]_vars

\* C6 (Statistics track the current track).  Whenever no track load is in
\* flight, statistics is none if locationData is empty and is otherwise the
\* statistics of exactly locationData.
C6_StatisticsTrackCurrent ==
    TrackCalls(fg) = {} => statistics = updateStatistics(locationData)

\* C7 (Cache hit is silent).  getAvailableDates for a key with an unexpired
\* entry issues no remote call, leaves loading as it was, and delivers the list
\* the entry holds, which is the list the earlier fetch delivered.
C7_CacheHitIsSilent ==
    [][\A t \in Devices, m \in Months :
         (/\ hasValidCacheEntry(availableDatesCache, <<t, m>>, clock)
          /\ getAvailableDates(t, m))
         => /\ fg' = fg
            /\ bg' = bg
            /\ loading' = loading
            /\ availableDates[<<t, m>>]
                 = Some(EntryOf(availableDatesCache, <<t, m>>).data)
            /\ availableDates'[<<t, m>>] = availableDates[<<t, m>>]]_vars

\* the availability entry has been read back, nothing is in flight, loading is off
C7_Witness ==
    /\ \E i \in 1..Len(availableDatesCache) :
          /\ availableDatesCache[i].accessCount = 2
          /\ availableDates[availableDatesCache[i].key]
               = Some(availableDatesCache[i].data)
    /\ metrics.hits = 1
    /\ fg = <<>>
    /\ ~loading

\* C8 (Prefetch isolation).  An answer to a prefetch call, good or bad, leaves
\* locationData, statistics, loading and the error as they were.
C8_PrefetchIsolation ==
    [][\A k \in TrackKeys :
         (PrefetchOk(k, RemoteTrack(k)) \/ PrefetchCode(k) \/ PrefetchFail(k))
         => UNCHANGED <<locationData, statistics, loading, error>>]_vars

\* a prefetch answer has come in while a foreground load was in flight
C8_Witness ==
    /\ MapHas(locationDataCache, <<1, 0>>)
    /\ ~MapHas(locationDataCache, <<1, 1>>)
    /\ loading
    /\ Len(fg) = 1
    /\ locationData = TrackA
    /\ statistics # None

\* the days next to the day of a key
Neighbours(key) == {<<key[1], key[2] - 1>>, <<key[1], key[2] + 1>>}

\* C9 (Prefetch populates neighbours).  When a track load succeeds, each
\* neighbouring day either has a live entry or has a prefetch call in flight;
\* every prefetch call in flight is followed by an entry for its key; and the
\* prefetch answers leave locationData, the track of the loaded day, alone.
C9_PrefetchPopulates ==
    /\ [][\A i \in 1..Len(fg) :
            TrackOk(i, RemoteTrack(fg[i].key))
            => /\ locationData' = RemoteTrack(fg[i].key)
               /\ \A k \in Neighbours(fg[i].key) :
                     \/ hasValidCacheEntry(locationDataCache', k, clock)
                     \/ bg'[k] > 0]_vars
    /\ [][\A k \in TrackKeys :
            PrefetchOk(k, RemoteTrack(k)) => locationData' = locationData]_vars
    /\ \A k \in TrackKeys : (bg[k] > 0) ~> MapHas(locationDataCache, k)

\* the day is loaded, both neighbours are in the cache, no prefetch is left
C9_Witness ==
    /\ locationData = TrackA
    /\ statistics # None
    /\ MapHas(locationDataCache, <<1, 0>>)
    /\ MapHas(locationDataCache, <<1, 2>>)
    /\ BagSize(bg) = 0
    /\ fg = <<>>

\* C10 (Refresh is targeted).  refreshData with a selection leaves the
\* availability cache, the track entries of other keys and the hit and eviction
\* counters as they were, and issues a remote track call for the selection.
C10_RefreshIsTargeted ==
    [][(refreshData /\ selectedDevice # None /\ selectedDate # None)
         => LET cacheKey == <<selectedDevice[1], selectedDate[1]>>
            IN  /\ availableDatesCache' = availableDatesCache
                /\ locationDataCache' = MapDelete(locationDataCache, cacheKey)
                /\ metrics'.hits = metrics.hits
                /\ metrics'.evictions = metrics.evictions
                /\ fg' = Append(fg, Call("track", cacheKey))]_vars

\* C11 (setDevice clears the selection's views).  After setSelectedDevice(id)
\* selectedDevice is id, and selectedDate, locationData, statistics and the
\* error are none or empty.
C11_SetDeviceClears ==
    [][\A t \in Devices :
         setSelectedDevice(Some(t))
         => /\ selectedDevice' = Some(t)
            /\ selectedDate' = None
            /\ locationData' = <<>>
            /\ statistics' = None
            /\ error' = NoError]_vars

\* C12 (Selection changes have no cache or I/O effect).  setSelectedDevice and
\* setSelectedDate start no remote call, foreground or prefetch, and leave the
\* entries of both caches and the metrics as they were.
C12_SelectionFrame ==
    [][\A sel \in {None} \cup {Some(x) : x \in Devices \cup Days \cup Days2} :
         (setSelectedDevice(sel) \/ setSelectedDate(sel))
         => UNCHANGED <<availableDatesCache, locationDataCache, metrics, fg, bg>>]_vars

\* a device and a date are selected while both caches hold entries
C12_Witness ==
    /\ selectedDevice # None
    /\ selectedDate # None
    /\ availableDatesCache # <<>>
    /\ locationDataCache # <<>>
    /\ metrics.misses = 2

\* C13 (clearAll resets everything).  After clearData the selection,
\* locationData, statistics and the error are none or empty, loading is false,
\* both caches are empty and hits, misses and evictions are 0.
C13_ClearAllResets ==
    [][clearData
         => /\ selectedDevice' = None
            /\ selectedDate' = None
            /\ locationData' = <<>>
            /\ statistics' = None
            /\ error' = NoError
            /\ loading' = FALSE
            /\ availableDatesCache' = <<>>
            /\ locationDataCache' = <<>>
            /\ metrics' = resetMetrics]_vars

\* C14 (Loading is always released).  Every foreground call in flight resolves,
\* by a good answer or by a failure, and whenever no foreground call is in
\* flight loading is false.
C14_LoadingReleased ==
    /\ [](fg = <<>> => ~loading)
    /\ [][\A i \in 1..Len(fg) :
            ((\E l \in DayLists : DatesOk(i, l)) \/ (\E f \in Failures : DatesFail(i, f))
               \/ TrackOk(i, RemoteTrack(fg[i].key))
               \/ (\E f \in Failures : TrackFail(i, f)))
            => ~loading']_vars
    /\ (fg # <<>>) ~> (fg = <<>>)

\* a failed availability call has released loading
C14_Witness ==
    /\ error = DatesError
    /\ fg = <<>>
    /\ ~loading
    /\ metrics.misses >= 1
    /\ availableDatesCache = <<>>

\* C15 (Bounded retry).  A foreground call makes at most 3 remote attempts, the
\* first and at most 2 retries, and a call that has made them all resolves.
C15_BoundedRetry ==
    /\ [](\A i \in 1..Len(fg) : fg[i].attempts + 1 <= 3)
    /\ [][\A i \in 1..Len(fg), f \in Failures :
            (fg[i].attempts + 1 = 3 /\ (TrackFail(i, f) \/ DatesFail(i, f)
                                          \/ RemoteRetry(i, f)))
            => Len(fg') = Len(fg) - 1]_vars
    /\ (\E i \in 1..Len(fg) : fg[i].attempts + 1 = 3) ~> (fg = <<>>)

\* a call is on its third attempt
C15_Witness ==
    \E i \in 1..Len(fg) : fg[i].attempts = 2 /\ loading

\* the failures the remote announces itself: a transport status that is not a
\* success, an API code that is not 200, a body that is not the expected one
Rejections == {"status", "code", "malformed"}

\* C16 (Rejections are not retried).  A foreground call the remote answers with
\* a rejection or a malformed body is not started again: it fails on that
\* answer, its first attempt.
C16_RejectionsNotRetried ==
    [][\A i \in 1..Len(fg), f \in Rejections :
         /\ ~RemoteRetry(i, f)
         /\ (TrackFail(i, f) \/ DatesFail(i, f)) => fg[i].attempts = 0]_vars

C18_SuccessClearsError ==
    [][\A i \in 1..Len(fg) :
         TrackOk(i, RemoteTrack(fg[i].key)) => error' = NoError]_vars

\* C19 (Expired read).  A read of a key whose entry has now - timestamp > ttl
\* returns nothing, removes that entry and no other, adds one to misses and
\* leaves hits; a read of a key whose entry has now - timestamp <= ttl returns
\* the entry's data, adds one to hits and leaves misses.
C19_ExpiredRead ==
    [][\A key \in CacheKeys :
         (cacheGetAvailableDates(key) /\ MapHas(availableDatesCache, key))
         => LET e == EntryOf(availableDatesCache, key)
                g == getCachedData(availableDatesCache, key, clock)
            IN  IF clock - e.timestamp > e.ttl
                THEN /\ g.result = None
                     /\ availableDatesCache' = MapDelete(availableDatesCache, key)
                     /\ Len(availableDatesCache') = Len(availableDatesCache) - 1
                     /\ metrics'.misses = metrics.misses + 1
                     /\ metrics'.hits = metrics.hits
                ELSE /\ g.result = Some(e.data)
                     /\ MapKeys(availableDatesCache') = MapKeys(availableDatesCache)
                     /\ metrics'.hits = metrics.hits + 1
                     /\ metrics'.misses = metrics.misses]_vars

\* an entry was read at the last instant of its ttl and again after it
C19_Witness ==
    /\ clock = CacheMaxClock
    /\ availableDatesCache = <<>>
    /\ locationDataCache = <<>>
    /\ metrics = [hits |-> 1, misses |-> 1, evictions |-> 1]

\* C20 (Round trip).  Whatever a cache holds, a put of a value under a key
\* followed at once by a get of that key, at any instant within the ttl,
\* returns exactly that value, whether or not the put evicts.
C20_RoundTrip ==
    /\ \A key \in CacheKeys, data \in DayLists, dt \in 0..datesTtl :
          LET p == setCachedData(availableDatesCache, key, data, datesTtl, clock)
          IN  getCachedData(p.cache, key, clock + dt).result = Some(data)
    /\ \A key \in TrackKeys, data \in Tracks \cup {TrackB}, dt \in 0..locationTtl :
          LET p == setCachedData(locationDataCache, key, data, locationTtl, clock)
          IN  getCachedData(p.cache, key, clock + dt).result = Some(data)

\* a put has evicted and the entry it stored has been read back
C20_Witness ==
    /\ clock = 1
    /\ metrics = [hits |-> 1, misses |-> 0, evictions |-> 1]
    /\ \E i \in 1..Len(availableDatesCache) :
          /\ availableDatesCache[i].timestamp = 1
          /\ availableDatesCache[i].accessCount = 2
          /\ availableDatesCache[i].data \in PutLists

\* C21 (has is a pure test).  has(k) is true exactly when a get(k) at the same
\* instant would return a value, and a has changes neither the entries, with
\* their lastAccessed and accessCount, nor the counters.
C21_HasIsPure ==
    /\ [](\A key \in CacheKeys :
            /\ hasValidCacheEntry(availableDatesCache, key, clock)
                 <=> getCachedData(availableDatesCache, key, clock).result # None
            /\ hasValidCacheEntry(locationDataCache, key, clock)
                 <=> getCachedData(locationDataCache, key, clock).result # None)
    /\ [][\A key \in CacheKeys :
            cacheHas(key)
            => UNCHANGED <<availableDatesCache, locationDataCache, metrics>>]_vars

\* the availability cache holds an entry past its ttl next to one within it
C21_Witness ==
    /\ Len(availableDatesCache) = 2
    /\ isExpired(availableDatesCache[1], clock)
    /\ ~isExpired(availableDatesCache[2], clock)
    /\ ~hasValidCacheEntry(availableDatesCache, availableDatesCache[1].key, clock)
    /\ hasValidCacheEntry(availableDatesCache, availableDatesCache[2].key, clock)

\* C22 (hitRate).  The hitRate metrics report is hits / (hits + misses), a
\* fraction between 0 and 1, and 0 when there have been no reads.
C22_HitRate ==
    LET r == hitRate(metrics)
        total == metrics.hits + metrics.misses
    IN  /\ 0 <= r[1] /\ r[1] <= r[2]
        /\ total = 0 => r[1] = 0
        /\ total > 0 => r[1] * total = metrics.hits * r[2]

\* C23 (LRU is by access).  When a put evicts from the availability cache, an
\* entry that a get has returned and that was last used later than every other
\* entry stays, the first-inserted entry included.
C23_LruByAccess ==
    [][\A key \in CacheKeys, data \in PutLists :
         PutEvicts(key, data)
         => \A h \in 1..Len(availableDatesCache) :
              (/\ availableDatesCache[h].accessCount >= 2
               /\ \A j \in 1..Len(availableDatesCache) :
                     j # h => availableDatesCache[j].lastAccessed
                                < availableDatesCache[h].lastAccessed)
              => MapHas(availableDatesCache', availableDatesCache[h].key)]_vars

\* the first-inserted entry was read and has outlived an eviction
C23_Witness ==
    /\ clock = 1
    /\ metrics = [hits |-> 1, misses |-> 0, evictions |-> 1]
    /\ Len(availableDatesCache) = maxSize
    /\ availableDatesCache[1].timestamp = 0
    /\ availableDatesCache[1].accessCount = 2
    /\ availableDatesCache[1].lastAccessed = 1
    /\ availableDatesCache[maxSize].timestamp = 1

\* what a put of data under key makes of a cache and of the metrics
PutReplaces(before, after, m, mAfter, key, data) ==
    /\ MapHas(after, key)
    /\ EntryOf(after, key).data = data
    /\ EntryOf(after, key).timestamp = clock
    /\ EntryOf(after, key).lastAccessed = clock
    /\ EntryOf(after, key).accessCount = 1
    /\ MapHas(before, key)
       => /\ Len(after) = Len(before)
          /\ \A i \in 1..Len(before) :
                before[i].key # key => after[i] = before[i]
          /\ mAfter = m

\* C24 (Put on a present key).  A put stores the value with timestamp and
\* lastAccessed at the present instant and accessCount 1, so it never evicts
\* the key it writes; on a key already present it leaves the number of
\* entries, every other entry and the eviction counter as they were.
C24_PutReplaces ==
    [][/\ \A key \in CacheKeys, data \in PutLists :
            cacheSetAvailableDates(key, data)
            => PutReplaces(availableDatesCache, availableDatesCache',
                           metrics, metrics', key, data)
       /\ \A key \in OneKey, data \in Tracks :
            cacheSetLocationData(key, data)
            => PutReplaces(locationDataCache, locationDataCache',
                           metrics, metrics', key, data)]_vars

\* the track that was stored and read has been replaced by an empty one
C24_Witness ==
    /\ clock = 1
    /\ metrics = [hits |-> 1, misses |-> 0, evictions |-> 0]
    /\ availableDatesCache = <<>>
    /\ Len(locationDataCache) = 1
    /\ locationDataCache[1].data = <<>>
    /\ locationDataCache[1].timestamp = 1
    /\ locationDataCache[1].accessCount = 1

\* what a sweep at the present instant makes of a cache: the entries past
\* their ttl are gone, the others are there as they were and in their order
SweptTo(before, after) ==
    /\ \A i \in 1..Len(before) :
          (clock - before[i].timestamp > before[i].ttl)
            <=> ~(\E j \in 1..Len(after) : after[j] = before[i])
    /\ \A j \in 1..Len(after) : \E i \in 1..Len(before) : before[i] = after[j]
    /\ \A j1, j2 \in 1..Len(after) :
          j1 < j2 => IndexOf(before, after[j1].key) < IndexOf(before, after[j2].key)

\* C25 (Sweep).  clearExpired removes from both caches exactly the entries with
\* now - timestamp > ttl, leaves the others untouched, and reports the number it
\* removed, which it adds to the eviction counter.
C25_SweepExpired ==
    [][clearExpired
         => /\ SweptTo(availableDatesCache, availableDatesCache')
            /\ SweptTo(locationDataCache, locationDataCache')
            /\ metrics'.evictions - metrics.evictions
                 = (Len(availableDatesCache) - Len(availableDatesCache'))
                   + (Len(locationDataCache) - Len(locationDataCache'))
            /\ metrics'.hits = metrics.hits
            /\ metrics'.misses = metrics.misses]_vars

\* a sweep has taken one entry and left the entry that is just within its ttl
C25_Witness ==
    /\ clock = 2
    /\ metrics = [hits |-> 0, misses |-> 0, evictions |-> 1]
    /\ Len(availableDatesCache) = 1
    /\ availableDatesCache[1].timestamp = 1
    /\ Len(locationDataCache) = 1

\* C26 (Clear).  clearAll, as clearData runs it, drops every entry of both
\* caches and sets hits, misses and evictions to 0, so that metrics report
\* size 0 and hitRate 0.
C26_ClearResets ==
    [][clearData
         => /\ availableDatesCache' = <<>>
            /\ locationDataCache' = <<>>
            /\ metrics' = [hits |-> 0, misses |-> 0, evictions |-> 0]
            /\ size(availableDatesCache', locationDataCache') = 0
            /\ hitRate(metrics')[1] = 0]_vars

\* the counters are 0 although a call that counted a miss is still in flight
C26_Witness ==
    /\ fg # <<>>
    /\ availableDatesCache = <<>>
    /\ locationDataCache = <<>>
    /\ metrics.hits = 0 /\ metrics.misses = 0 /\ metrics.evictions = 0
    /\ size(availableDatesCache, locationDataCache) = 0

\* a cache holds a live entry with an empty value under a key
HoldsEmpty(cache, key) ==
    hasValidCacheEntry(cache, key, clock) /\ EntryOf(cache, key).data = <<>>

\* C27 (Empty is cacheable).  An empty day list or an empty track the remote
\* returns successfully is stored, and a call for a key with a live empty entry
\* is served from the cache: it counts a hit, starts no remote call and
\* delivers the empty value.
C27_EmptyIsCacheable ==
    [][/\ \A i \in 1..Len(fg) :
            /\ DatesOk(i, <<>>) => HoldsEmpty(availableDatesCache', fg[i].key)
            /\ TrackOk(i, <<>>) => HoldsEmpty(locationDataCache', fg[i].key)
       /\ \A t \in Devices, d \in Days2 :
            (HoldsEmpty(locationDataCache, <<t, d>>) /\ getLocationData(t, d))
            => /\ fg' = fg /\ bg' = bg /\ loading' = loading
               /\ metrics'.hits = metrics.hits + 1
               /\ metrics'.misses = metrics.misses
               /\ locationData' = <<>>
       /\ \A t \in Devices, m \in Months :
            (HoldsEmpty(availableDatesCache, <<t, m>>) /\ getAvailableDates(t, m))
            => /\ fg' = fg /\ bg' = bg /\ loading' = loading
               /\ metrics'.hits = metrics.hits + 1
               /\ metrics'.misses = metrics.misses
               /\ availableDates'[<<t, m>>] = Some(<<>>)]_vars

\* the empty track of day 2 was fetched, stored and then served from the cache
C27_Witness ==
    /\ metrics = [hits |-> 1, misses |-> 1, evictions |-> 0]
    /\ ~MapHas(locationDataCache, <<1, 1>>)
    /\ HoldsEmpty(locationDataCache, <<1, 2>>)
    /\ EntryOf(locationDataCache, <<1, 2>>).accessCount = 2
    /\ locationData = <<>>
    /\ fg = <<>>
    /\ ~loading

\* C28 (Prefetch dedup).  When a track load succeeds, a prefetch call is
\* started for exactly the neighbouring days that have no live entry in the
\* location cache at that moment, one call each, and for no other day.
C28_PrefetchDedup ==
    [][\A i \in 1..Len(fg) :
         TrackOk(i, RemoteTrack(fg[i].key))
         => \A k \in TrackKeys :
              bg'[k] = IF /\ k \in Neighbours(fg[i].key)
                          /\ ~hasValidCacheEntry(locationDataCache', k, clock)
                       THEN bg[k] + 1
                       ELSE bg[k]]_vars

\* day 2 was in the cache when day 1 was loaded: only day 0 is being prefetched
C28_Witness ==
    /\ fg = <<>>
    /\ hasValidCacheEntry(locationDataCache, <<1, 1>>, clock)
    /\ hasValidCacheEntry(locationDataCache, <<1, 2>>, clock)
    /\ IndexOf(locationDataCache, <<1, 2>>) < IndexOf(locationDataCache, <<1, 1>>)
    /\ bg[<<1, 0>>] = 1
    /\ bg[<<1, 2>>] = 0
    /\ locationData = TrackA

\* C29 (Prefetch is bounded).  A successful track load starts at most two
\* prefetch calls, at most one for each neighbouring day and none for other
\* days; an answer to a prefetch call, good or bad, ends that call and starts
\* no other.
C29_PrefetchBounded ==
    [][/\ \A i \in 1..Len(fg) :
            TrackOk(i, RemoteTrack(fg[i].key))
            => /\ BagSize(bg') - BagSize(bg) <= 2
               /\ \A k \in TrackKeys :
                     /\ bg'[k] - bg[k] \in {0, 1}
                     /\ bg'[k] # bg[k] => k \in Neighbours(fg[i].key)
       /\ \A k \in TrackKeys :
            (PrefetchOk(k, RemoteTrack(k)) \/ PrefetchCode(k) \/ PrefetchFail(k))
            => /\ bg'[k] = bg[k] - 1
               /\ \A k2 \in TrackKeys : k2 # k => bg'[k2] = bg[k2]
               /\ fg' = fg]_vars

\* one prefetch has failed and the other is still in flight
C29_Witness ==
    /\ locationData = TrackA
    /\ fg = <<>>
    /\ BagSize(bg) = 1
    /\ bg[<<1, 2>>] = 1
    /\ ~MapHas(locationDataCache, <<1, 0>>)
    /\ MapHas(locationDataCache, <<1, 1>>)
    /\ metrics = [hits |-> 0, misses |-> 1, evictions |-> 0]

\* C30 (Only successful responses are cached).  A prefetch call whose answer
\* is a failure, an answer with an API code other than 200 included, leaves
\* the location cache as it was.
C30_OnlySuccessCached ==
    [][\A k \in TrackKeys :
         (PrefetchCode(k) \/ PrefetchFail(k)) => UNCHANGED locationDataCache]_vars

\* C31 (Loading reflects in-flight work).  In every state where at least one
\* foreground remote call has started and has not been answered, loading is
\* true, also when several calls overlap and one is answered before the others.
C31_LoadingReflectsInFlight == fg # <<>> => loading

\* C32 (clearAll is not undone by stale completions).  Every operation that
\* starts a call counts a hit or a miss, so while both counters are zero no
\* operation has been invoked since construction or the last clear; in every
\* such state, answers of calls started before the clear included, the track
\* is empty, the statistics are none and both caches are empty.
C32_ClearNotUndone ==
    metrics.hits + metrics.misses = 0
    => /\ locationData = <<>>
       /\ statistics = None
       /\ availableDatesCache = <<>>
       /\ locationDataCache = <<>>

\* C33 (Invalid cache configuration rejected).  In every reachable state the
\* configuration the cache works with has a positive maxSize and a TTL that is
\* not negative.
C33_InvalidConfigRejected ==
    /\ config.maxSize > 0
    /\ config.defaultTtl >= 0

CompassLabels == {"N", "NE", "E", "SE", "S", "SW", "W", "NW"}

\* C34 (compassLabel is periodic and total).  The direction text of every
\* point of the current track, whatever its heading (negative and beyond 360
\* included), is one of the eight labels and is the text of that heading plus
\* 360.
C34_CompassLabel ==
    \A i \in 1..Len(locationData) :
        /\ enhancedLocationData[i].directionText \in CompassLabels
        /\ enhancedLocationData[i].directionText
             = getDirectionText(locationData[i].heading + 360)

\* the samples of a track that move
Moving(locations) == SelectSeq(locations, LAMBDA p : p.speed > 0)

\* the sum of the speeds, in km/h, of the samples of a track
SpeedSum(locations) ==
    SumSeq([i \in 1..Len(locations) |-> speedKmh(locations[i])])

C36_OneSampleSpeed ==
    (statistics # None /\ Len(locationData) = 1)
    => LET st == statistics[1] IN
       /\ st.totalPoints = 1
       /\ st.totalDistance = 0
       /\ st.duration = 0
       /\ st.maxSpeed = locationData[1].speed
       /\ st.averageSpeed[1] = locationData[1].speed * st.averageSpeed[2]

\* C36 amended (one-sample track).  The statistics of a track of one sample
\* have totalPoints 1, totalDistance 0, duration 0, and maxSpeed and
\* averageSpeed equal to the speed of that sample times 3.6 (metres per second
\* to km/h), rounded to the nearest whole number.
C36_OneSampleKmh ==
    (statistics # None /\ Len(locationData) = 1)
    => LET st == statistics[1]
           speed == locationData[1].speed
       IN  /\ st.totalPoints = 1
           /\ st.totalDistance = 0
           /\ st.duration = 0
           /\ 36 * speed - 5 < 10 * st.maxSpeed
           /\ 10 * st.maxSpeed <= 36 * speed + 5
           /\ st.averageSpeed[1] = st.maxSpeed * st.averageSpeed[2]

\* the statistics of a track of one sample, taken at 1000 with 1 m/s
C36_Witness ==
    /\ locationData = <<LocationPoint(1000, 1, 1, 0)>>
    /\ statistics # None
    /\ statistics[1].maxSpeed = 4
    /\ statistics[1].duration = 0

\* C37 (empty track gives the empty marker).  An answer with a track of no
\* samples sets the statistics to none, and the statistics are never a record
\* that counts no points.
C37_EmptyTrackNoStatistics ==
    /\ [][\A i \in 1..Len(fg) : TrackOk(i, <<>>) => statistics' = None]_vars
    /\ [](statistics # None => statistics[1].totalPoints > 0)

\* day 1 was answered with its track, which started the prefetch of day 0, and
\* then day 2 was answered with a track of no samples
C37_Witness ==
    /\ fg = <<>>
    /\ bg[<<1, 0>>] = 1
    /\ MapHas(locationDataCache, <<1, 1>>)
    /\ EntryOf(locationDataCache, <<1, 1>>).data = TrackA
    /\ MapHas(locationDataCache, <<1, 2>>)
    /\ EntryOf(locationDataCache, <<1, 2>>).data = <<>>
    /\ locationData = <<>>
    /\ error = NoError
    /\ statistics = None

\* C38 (hits + misses counts the gets).  With metrics enabled, every get of
\* either cache raises hits + misses by exactly one, clearAll puts both to
\* zero, and put, has, clearExpired (with the evictions any of them makes) and
\* the passing of time leave hits and misses as they are: hits + misses is the
\* number of gets since construction or the last clear.
C38_GetsCounted ==
    [][config.enableMetrics =>
        /\ \A k \in CacheKeys :
              cacheGetAvailableDates(k)
              => metrics'.hits + metrics'.misses = metrics.hits + metrics.misses + 1
        /\ \A k \in OneKey :
              cacheGetLocationData(k)
              => metrics'.hits + metrics'.misses = metrics.hits + metrics.misses + 1
        /\ cacheClearAll => (metrics'.hits = 0 /\ metrics'.misses = 0)
        /\ ( \/ \E k \in CacheKeys, l \in PutLists : cacheSetAvailableDates(k, l)
             \/ \E k \in OneKey, d \in Tracks : cacheSetLocationData(k, d)
             \/ \E k \in CacheKeys : cacheHas(k)
             \/ clearExpired
             \/ CacheTick )
           => (metrics'.hits = metrics.hits /\ metrics'.misses = metrics.misses)]_vars

\* a hit and a miss have been counted, and a put has evicted an entry from a
\* full cache
C38_Witness ==
    /\ metrics = [hits |-> 1, misses |-> 1, evictions |-> 1]
    /\ Len(availableDatesCache) = maxSize
    /\ \A i \in 1..Len(availableDatesCache) :
          ~isExpired(availableDatesCache[i], clock)

\* the entries of both caches that a step removes
Removed ==
    Cardinality(MapKeys(availableDatesCache) \ MapKeys(availableDatesCache'))
    + Cardinality(MapKeys(locationDataCache) \ MapKeys(locationDataCache'))

\* C39 (evictions counts the removals).  With metrics enabled, clearAll puts
\* evictions to zero, and every other step adds to evictions exactly the
\* number of entries it removes from the two caches: the eviction of a put into
\* a full cache, the expired entry a get deletes, the entries clearExpired
\* removes, and nothing for any other operation.
C39_EvictionsCounted ==
    [][config.enableMetrics =>
        IF cacheClearAll
        THEN metrics'.evictions = 0
        ELSE metrics'.evictions = metrics.evictions + Removed]_vars

\* a put at instant 1 has evicted one of two entries written at 0, and the
\* other, expired at instant 2, has been removed by a get or by clearExpired
C39_Witness ==
    /\ clock = 2
    /\ metrics = [hits |-> 0, misses |-> 1, evictions |-> 2]
    /\ Len(availableDatesCache) = 1
    /\ availableDatesCache[1].timestamp = 1
    /\ locationDataCache = <<>>

====
